---- MODULE Spec2Model ----
(***************************************************************************)
(* A model of the trading package: the price generator (data.py), the      *)
(* portfolio engine and ledger (process.py), the ledger replay             *)
(* (performance.py) and the strategies (strategy.py).                      *)
(*                                                                         *)
(* Prices, increments and drifts are integers; the float NaN of numpy is   *)
(* the value NaN below, and every arithmetic or comparison operator on     *)
(* matrix entries is written through FAdd / FLe0 and friends, which give   *)
(* NaN the IEEE behaviour numpy gives it (NaN + x = NaN, NaN <= x false).   *)
(***************************************************************************)
EXTENDS Integers, Sequences, FiniteSets, TLC

VARIABLES
    \* generate_stock_price
    initial_prices, volatility, share_price_matrix, gen_day, priced, news_count,
    news_drift,
    \* a run against a price matrix: the matrix (the rows up to today), the fees,
    \* the in-memory portfolio, the ledger file, the calls made so far
    stock_prices, fees, portfolio, ledger, calls, today, pc,
    \* a strategy: which one runs, its parameters and the matrices of its loop
    strategy, amount, period_n, period_m, wait_time, cool_down_period,
    buy_indicator_matrix, sell_indicator_matrix,
    buy_cool_down_matrix, sell_cool_down_matrix,
    \* a call of an indicator: its arguments besides the prices and the period,
    \* and the matrix it returns
    weights, osc_type, smoothing_period, indicator,
    \* a call of generate_stock_price on given draws: the increments rng.normal
    \* returned and the news drift of each day
    increment_matrix, news_draws,
    \* a call of read_ledger: the text of the ledger file, the argument `stock`
    \* and what the call returned
    file_contents, stock_of_choice, returned

genVars == <<initial_prices, volatility, share_price_matrix, gen_day, priced, news_count,
            news_drift>>

runVars == <<stock_prices, fees, portfolio, ledger, calls, today, pc>>

paramVars == <<strategy, amount, period_n, period_m, wait_time, cool_down_period>>

matrixVars == <<buy_indicator_matrix, sell_indicator_matrix,
                buy_cool_down_matrix, sell_cool_down_matrix>>

indVars == <<weights, osc_type, smoothing_period, indicator>>

drawVars == <<increment_matrix, news_draws>>

replayVars == <<file_contents, stock_of_choice, returned>>

vars == <<genVars, runVars, paramVars, matrixVars, indVars, drawVars, replayVars>>

(***************************************************************************)
(* Floating point values                                                   *)
(***************************************************************************)
\* np.nan: a value outside the range any price, share count or amount reaches
NaN == -9999

isnan(x) == x = NaN

\* x + y on floats
FAdd(x, y) == IF isnan(x) \/ isnan(y) THEN NaN ELSE x + y

\* x <= 0 on floats: False for NaN
FLe0(x) == ~isnan(x) /\ x <= 0

(***************************************************************************)
(* Python indexing                                                         *)
(***************************************************************************)
\* a[i] on an axis of length len: a negative i counts from the end
PyIndex(i, len) == IF i < 0 THEN i + len ELSE i

\* a[i] raises IndexError
PyIndexError(i, len) == PyIndex(i, len) < 0 \/ PyIndex(i, len) >= len

\* one bound of a slice, clipped as Python clips it
PyClip(i, len) ==
    LET j == IF i < 0 THEN i + len ELSE i
    IN  IF j < 0 THEN 0 ELSE IF j > len THEN len ELSE j

\* the indices selected by a[lo:hi] on an axis of length len
PySlice(lo, hi, len) == { k \in 0..(len - 1) : PyClip(lo, len) <= k /\ k < PyClip(hi, len) }

(***************************************************************************)
(* Bounds of the model                                                     *)
(***************************************************************************)
\* the stock ids: the columns of every matrix, the indices of a portfolio
Stocks == {0, 1}

NStocks == Cardinality(Stocks)

\* days of a generated price matrix
GenDays == 5

\* news events per generated matrix
MaxNews == 1

\* initial prices offered to generate_stock_price (>= 0)
InitialPriceSet == {0, 2}

\* volatilities offered to generate_stock_price
VolatilitySet == {1, 2}

\* rng.normal(0, volatility): the draws, in units of the volatility
NormalDraws == {-1, 1}

\* rng.normal(0, 2): the news magnitudes m
MagnitudeDraws == {-1, 1}

\* the variables of the part of the program a specification does not run
GenIdle ==
    /\ initial_prices = <<>> /\ volatility = <<>> /\ share_price_matrix = <<>>
    /\ gen_day = 0 /\ priced = <<>> /\ news_count = 0 /\ news_drift = <<>>

RunIdle ==
    /\ stock_prices = <<>> /\ fees = 0 /\ portfolio = <<>> /\ ledger = <<>>
    /\ calls = <<>> /\ today = 0 /\ pc = "idle"

IndicatorIdle ==
    /\ weights = <<>> /\ osc_type = "none" /\ smoothing_period = 0 /\ indicator = <<>>

DrawIdle ==
    /\ increment_matrix = <<>> /\ news_draws = <<>>

ReplayIdle ==
    /\ file_contents = <<>> /\ stock_of_choice = 0 /\ returned = <<>>

StrategyIdle ==
    /\ strategy = "none"
    /\ amount = 0 /\ period_n = 0 /\ period_m = 0 /\ wait_time = 0 /\ cool_down_period = 0
    /\ buy_indicator_matrix = <<>> /\ sell_indicator_matrix = <<>>
    /\ buy_cool_down_matrix = <<>> /\ sell_cool_down_matrix = <<>>

(***************************************************************************)
(* data.py: news, generate_stock_price                                     *)
(***************************************************************************)
\* rng.integers(3, 15): the duration of a news event lies in DurationLow..DurationHigh
DurationLow == 3
DurationHigh == 14

\* the durations drawn: the shortest and the longest
DurationDraws == {DurationLow, DurationHigh}

\* news(): the drift matrix, as (duration, row 0): a news event of magnitude m,
\* or np.zeros(1) when there is none
news_event(m, duration, vol) == [duration |-> duration, drift |-> [s \in Stocks |-> m * vol[s]]]
news_none == [duration |-> 1, drift |-> [s \in Stocks |-> 0]]

NewsChoices(vol, allowed) ==
    {news_none} \cup
    (IF allowed
     THEN { news_event(m, k, vol) : m \in MagnitudeDraws, k \in DurationDraws }
     ELSE {})

\* share_price_matrix after lines 76-86: row 0 the initial prices, the other rows 0,
\* and the whole column NaN where the initial price is 0
InitialMatrix(days, init) ==
    [d \in 0..(days - 1) |->
        [s \in Stocks |-> IF init[s] = 0 THEN NaN ELSE IF d = 0 THEN init[s] ELSE 0]]

\* line 98: share_price_matrix[day] += share_price_matrix[day - 1] + increment
AddIncrement(mat, day, inc) ==
    [mat EXCEPT ![day] = [s \in Stocks |-> FAdd(mat[day][s], FAdd(mat[day - 1][s], inc[s]))]]

\* lines 106-112: the rows a news drift of this duration is added to
NewsRows_whole(day, duration, days) == PySlice(day, days, days)

NewsRows(day, duration, days) ==
    IF day + duration > days - 1
    THEN PySlice(day, days, days)
    ELSE PySlice(day, day + duration, days)

AddNews_day(mat, day, nw, days) ==
    [d \in 0..(days - 1) |->
        IF d = day
        THEN [s \in Stocks |-> FAdd(mat[d][s], nw.drift[s])]
        ELSE mat[d]]

AddNews(mat, day, nw, days) ==
    [d \in 0..(days - 1) |->
        IF d \in NewsRows(day, nw.duration, days)
        THEN [s \in Stocks |-> FAdd(mat[d][s], nw.drift[s])]
        ELSE mat[d]]

\* line 116-119: the entries of the day's row that are <= 0
IsBankrupt_strict(x) == ~isnan(x) /\ x < 0
IsBankrupt(x) == FLe0(x)

\* line 122: share_price_matrix[day:, index_where_zero] = np.nan
CloseStocks(mat, day, days) ==
    [d \in 0..(days - 1) |->
        [s \in Stocks |-> IF d >= day /\ IsBankrupt(mat[day][s]) THEN NaN ELSE mat[d][s]]]

GenInit ==
    /\ initial_prices \in [Stocks -> InitialPriceSet]
    /\ volatility \in [Stocks -> VolatilitySet]
    /\ share_price_matrix = InitialMatrix(GenDays, initial_prices)
    /\ gen_day = 1
    /\ priced = [d \in 0..(GenDays - 1) |-> [s \in Stocks |-> NaN]]
    /\ news_count = 0
    /\ news_drift = <<>>
    /\ RunIdle
    /\ StrategyIdle
    /\ IndicatorIdle
    /\ DrawIdle
    /\ ReplayIdle

\* a volatility of length 1 is broadcast by numpy to every stock
Broadcast(vol) ==
    [s \in Stocks |-> IF Cardinality(DOMAIN vol) = 1 THEN vol[0] ELSE vol[s]]

\* one iteration of the loop over the days, lines 95-122
GenerateDay ==
    /\ gen_day >= 1
    /\ gen_day < GenDays
    /\ \E z \in [Stocks -> NormalDraws],
          nw \in NewsChoices(Broadcast(volatility), news_count < MaxNews) :
          LET inc    == [s \in Stocks |-> z[s] * Broadcast(volatility)[s]]
              stepped == AddIncrement(share_price_matrix, gen_day, inc)
              drifted == AddNews(stepped, gen_day, nw, GenDays)
          IN  /\ share_price_matrix' = CloseStocks(drifted, gen_day, GenDays)
              /\ priced' = [priced EXCEPT ![gen_day] = drifted[gen_day]]
              /\ news_count' = IF nw = news_none THEN news_count ELSE news_count + 1
              /\ news_drift' = nw
    /\ gen_day' = gen_day + 1
    /\ UNCHANGED <<initial_prices, volatility>>
    /\ UNCHANGED <<runVars, paramVars, matrixVars, indVars, drawVars, replayVars>>

GenNext == GenerateDay

SpecGen == GenInit /\ [][GenNext]_vars

(***************************************************************************)
(* process.py: log_transaction, buy, sell, create_portfolio                *)
(*                                                                         *)
(* The ledger file is the sequence of its lines; a line is the record of   *)
(* the seven fields log_transaction writes. The portfolio and the ledger   *)
(* a call works on are passed and returned together as [portfolio, ledger].*)
(***************************************************************************)
\* days of the price matrix of a run of buy and sell calls
LedgerDays == 2

\* buy and sell calls of a run, after create_portfolio
MaxCalls == 2

\* the fees of a run, and the capitals offered to buy (one below the fees)
FeeSet == {2}
CapitalSet == {1, 6}

\* the prices of a stock that has not failed
PriceSet == {1, 2}

\* the line written for a transaction
Line(type, date, stock, shares, price, fee, amount_spent) ==
    [type |-> type, date |-> date, stock |-> stock, shares |-> shares,
     price |-> price, fees |-> fee, amount |-> amount_spent]

\* log_transaction, lines 30-63: the ledger file after the call
log_transaction_front(transaction_type, date, stock, number_of_shares, price, fee, ledger_file) ==
    IF transaction_type = "buy"
    THEN <<Line("buy", date, stock, number_of_shares, price, fee,
                0 - (number_of_shares * price) - fee)>> \o ledger_file
    ELSE IF transaction_type = "sell" /\ number_of_shares > 0
         THEN <<Line("sell", date, stock, number_of_shares, price, fee,
                     number_of_shares * price - fee)>> \o ledger_file
         ELSE ledger_file

log_transaction_always(transaction_type, date, stock, number_of_shares, price, fee, ledger_file) ==
    IF transaction_type = "buy"
    THEN Append(ledger_file, Line("buy", date, stock, number_of_shares, price, fee,
                                  0 - (number_of_shares * price) - fee))
    ELSE Append(ledger_file, Line("sell", date, stock, number_of_shares, price, fee,
                                  number_of_shares * price - fee))

log_transaction(transaction_type, date, stock, number_of_shares, price, fee, ledger_file) ==
    IF transaction_type = "buy"
    THEN Append(ledger_file, Line("buy", date, stock, number_of_shares, price, fee,
                                  0 - (number_of_shares * price) - fee))
    ELSE IF transaction_type = "sell" /\ number_of_shares > 0
         THEN Append(ledger_file, Line("sell", date, stock, number_of_shares, price, fee,
                                       number_of_shares * price - fee))
         ELSE ledger_file

\* np.floor(x / y) for y > 0
FloorDiv(x, y) == x \div y

\* buy, lines 88-102
buy_keep_on_nan(date, stock, available_capital, prices, fee, st) ==
    IF ~isnan(prices[date][stock])
    THEN LET available_stock_to_buy == FloorDiv(available_capital - fee, prices[date][stock])
         IN  [portfolio |-> [st.portfolio EXCEPT ![stock] = @ + available_stock_to_buy],
              ledger |-> log_transaction("buy", date, stock, available_stock_to_buy,
                                         prices[date][stock], fee, st.ledger)]
    ELSE st

buy(date, stock, available_capital, prices, fee, st) ==
    IF ~isnan(prices[date][stock])
    THEN LET available_stock_to_buy == FloorDiv(available_capital - fee, prices[date][stock])
         IN  [portfolio |-> [st.portfolio EXCEPT ![stock] = @ + available_stock_to_buy],
              ledger |-> log_transaction("buy", date, stock, available_stock_to_buy,
                                         prices[date][stock], fee, st.ledger)]
    ELSE [st EXCEPT !.portfolio[stock] = 0]

\* sell, lines 123-134
sell_keep_on_nan(date, stock, prices, fee, st) ==
    IF ~isnan(prices[date][stock])
    THEN [portfolio |-> [st.portfolio EXCEPT ![stock] = 0],
          ledger |-> log_transaction("sell", date, stock, st.portfolio[stock],
                                     prices[date][stock], fee, st.ledger)]
    ELSE st

sell(date, stock, prices, fee, st) ==
    IF ~isnan(prices[date][stock])
    THEN [portfolio |-> [st.portfolio EXCEPT ![stock] = 0],
          ledger |-> log_transaction("sell", date, stock, st.portfolio[stock],
                                     prices[date][stock], fee, st.ledger)]
    ELSE [st EXCEPT !.portfolio[stock] = 0]

\* create_portfolio, lines 168-172: the loop over the stocks, from `stock` on
RECURSIVE create_loop(_, _, _, _, _)
create_loop(stock, available_amounts, prices, fee, st) ==
    IF stock >= NStocks
    THEN st
    ELSE create_loop(stock + 1, available_amounts, prices, fee,
                     buy(0, stock, available_amounts[stock], prices, fee, st))

\* create_portfolio, lines 156-175: np.zeros(N), the buys of day 0, and the share
\* counts as integers (they are whole numbers already: int() leaves them)
create_portfolio(available_amounts, prices, fee, ledger_file) ==
    create_loop(0, available_amounts, prices, fee,
                [portfolio |-> [s \in Stocks |-> 0], ledger |-> ledger_file])

(***************************************************************************)
(* performance.py: read_ledger, the replay of the portfolio (lines 63-117) *)
(*                                                                         *)
(* ledger_data is the sequence of the ledger's records. A snapshot is one  *)
(* row of read_ledger's array `portfolio`: a function on the columns       *)
(* 0..no_of_stock-1.                                                       *)
(***************************************************************************)
RECURSIVE SortedSeq(_)
SortedSeq(S) ==
    IF S = {} THEN <<>>
    ELSE LET least == CHOOSE x \in S : \A y \in S : x <= y
         IN  <<least>> \o SortedSeq(S \ {least})

\* line 66: np.unique(ledger_data[:, 1])
trading_days(ledger_data) ==
    SortedSeq({ ledger_data[i].date : i \in DOMAIN ledger_data })

IsDayZero(r) == r.date = 0

\* line 68: np.count_nonzero(ledger_data[:, 1] == 0)
no_of_stock(ledger_data) == Len(SelectSeq(ledger_data, IsDayZero))

\* line 72: the share counts of the records of day 0, in file order
initial_snapshot(ledger_data) ==
    LET zero == SelectSeq(ledger_data, IsDayZero)
    IN  [col \in 0..(Len(zero) - 1) |-> zero[col + 1].shares]

\* lines 75-76, 84-85: the buy (sell) records of a day, in file order
on_day_rows(ledger_data, type, day) ==
    LET Match(r) == r.type = type /\ r.date = day
    IN  SelectSeq(ledger_data, Match)

StocksOf(rows) == { rows[i].stock : i \in DOMAIN rows }

\* a[idx] = values with a stock several times in idx: the last value is kept
LastShares(rows, stock) ==
    LET last == CHOOSE i \in DOMAIN rows :
                    /\ rows[i].stock = stock
                    /\ \A j \in DOMAIN rows : rows[j].stock = stock => j <= i
    IN  rows[last].shares

\* lines 88-114: the snapshot of one trading day from the one before it
snapshot_all_kept(previous, bought, sold) ==
    [col \in DOMAIN previous |->
        IF col \in StocksOf(sold) /\ bought # <<>> /\ sold # <<>>
        THEN previous[col] - LastShares(sold, col)
        ELSE IF col \in StocksOf(bought) THEN previous[col] + LastShares(bought, col)
        ELSE IF col \in StocksOf(sold) THEN previous[col] - LastShares(sold, col)
        ELSE previous[col]]

snapshot(previous, bought, sold) ==
    IF bought # <<>> /\ sold # <<>>
    THEN [col \in DOMAIN previous |->
            IF col \in StocksOf(sold) THEN previous[col] - LastShares(sold, col)
            ELSE IF col \in StocksOf(bought) THEN previous[col] + LastShares(bought, col)
            ELSE 0]
    ELSE IF bought # <<>>
    THEN [col \in DOMAIN previous |->
            IF col \in StocksOf(bought) THEN previous[col] + LastShares(bought, col)
            ELSE previous[col]]
    ELSE IF sold # <<>>
    THEN [col \in DOMAIN previous |->
            IF col \in StocksOf(sold) THEN previous[col] - LastShares(sold, col)
            ELSE previous[col]]
    ELSE previous

\* portfolio[i, stocks] with a stock that is no column raises IndexError
snapshot_raises(previous, bought, sold) ==
    \E stock \in StocksOf(bought) \cup StocksOf(sold) : stock \notin DOMAIN previous

\* lines 81-117: the loop over trading_days[1:], from index i on; snapshots is the
\* array `portfolio` up to row i - 1
RECURSIVE replay_loop(_, _, _, _)
replay_loop(ledger_data, days, i, snapshots) ==
    IF i > Len(days)
    THEN [raised |-> FALSE, portfolio |-> snapshots]
    ELSE LET bought == on_day_rows(ledger_data, "buy", days[i])
             sold == on_day_rows(ledger_data, "sell", days[i])
             previous == snapshots[i - 1]
         IN  IF snapshot_raises(previous, bought, sold)
             THEN [raised |-> TRUE, portfolio |-> snapshots]
             ELSE replay_loop(ledger_data, days, i + 1,
                              Append(snapshots, snapshot(previous, bought, sold)))

\* read_ledger, lines 63-117: the array `portfolio`, one snapshot per trading day,
\* or the IndexError of portfolio[0] on a ledger without a trading day
read_ledger(ledger_data) ==
    IF trading_days(ledger_data) = <<>>
    THEN [raised |-> TRUE, portfolio |-> <<>>]
    ELSE replay_loop(ledger_data, trading_days(ledger_data), 2,
                     <<initial_snapshot(ledger_data)>>)

(***************************************************************************)
(* A run: create_portfolio, then buy and sell calls on days that do not    *)
(* decrease. The price matrix has the absorbing property; its rows are     *)
(* drawn as the run reaches their day (a call reads the row of its day).   *)
(***************************************************************************)
\* a call of buy or sell: its arguments, the holding of the stock before it, and
\* where it comes from (create_portfolio, a call of the run, a signal of a strategy,
\* the sale of the portfolio at the end of a strategy)
Call(op, date, stock, capital, held, why) ==
    [op |-> op, date |-> date, stock |-> stock, capital |-> capital, held |-> held,
     why |-> why]

\* the calls create_portfolio makes: one buy per stock, in stock order
RECURSIVE create_calls(_, _, _)
create_calls(stock, available_amounts, sofar) ==
    IF stock >= NStocks
    THEN sofar
    ELSE create_calls(stock + 1, available_amounts,
                      Append(sofar, Call("buy", 0, stock, available_amounts[stock], 0, "create")))

\* the next row of a price matrix: a failed stock stays failed, another one keeps
\* its price, changes it or fails
NextRows(row) ==
    { r \in [Stocks -> PriceSet \cup {NaN}] :
        \A s \in Stocks : /\ isnan(row[s]) => isnan(r[s])
                          /\ ~isnan(row[s]) => r[s] \in {row[s], NaN} }

ExtendMatrix(mat, day, row) == [d \in 0..day |-> IF d < day THEN mat[d] ELSE row]

RunState == [portfolio |-> portfolio, ledger |-> ledger]

LedgerInit ==
    /\ GenIdle
    /\ StrategyIdle
    /\ IndicatorIdle
    /\ DrawIdle
    /\ ReplayIdle
    /\ stock_prices \in [{0} -> [Stocks -> PriceSet \cup {NaN}]]
    /\ fees \in FeeSet
    /\ portfolio = [s \in Stocks |-> 0]
    /\ ledger = <<>>
    /\ calls = <<>>
    /\ today = 0
    /\ pc = "new"

LCreate ==
    /\ pc = "new"
    /\ \E available_amounts \in [Stocks -> CapitalSet] :
          LET st == create_portfolio(available_amounts, stock_prices, fees, ledger)
          IN  /\ portfolio' = st.portfolio
              /\ ledger' = st.ledger
              /\ calls' = create_calls(0, available_amounts, calls)
    /\ pc' = "run"
    /\ UNCHANGED <<stock_prices, fees, today>>
    /\ UNCHANGED <<genVars, paramVars, matrixVars, indVars, drawVars, replayVars>>

LBuy ==
    /\ pc = "run"
    /\ Len(calls) < NStocks + MaxCalls
    /\ \E stock \in Stocks, available_capital \in CapitalSet :
          LET st == buy(today, stock, available_capital, stock_prices, fees, RunState)
          IN  /\ portfolio' = st.portfolio
              /\ ledger' = st.ledger
              /\ calls' = Append(calls, Call("buy", today, stock, available_capital,
                                             portfolio[stock], "call"))
    /\ UNCHANGED <<stock_prices, fees, today, pc>>
    /\ UNCHANGED <<genVars, paramVars, matrixVars, indVars, drawVars, replayVars>>

LSell ==
    /\ pc = "run"
    /\ Len(calls) < NStocks + MaxCalls
    /\ \E stock \in Stocks :
          LET st == sell(today, stock, stock_prices, fees, RunState)
          IN  /\ portfolio' = st.portfolio
              /\ ledger' = st.ledger
              /\ calls' = Append(calls, Call("sell", today, stock, 0, portfolio[stock], "call"))
    /\ UNCHANGED <<stock_prices, fees, today, pc>>
    /\ UNCHANGED <<genVars, paramVars, matrixVars, indVars, drawVars, replayVars>>

\* the run moves to the next day
LNextDay ==
    /\ pc = "run"
    /\ today + 1 < LedgerDays
    /\ \E row \in NextRows(stock_prices[today]) :
          stock_prices' = ExtendMatrix(stock_prices, today + 1, row)
    /\ today' = today + 1
    /\ UNCHANGED <<fees, portfolio, ledger, calls, pc>>
    /\ UNCHANGED <<genVars, paramVars, matrixVars, indVars, drawVars, replayVars>>

LedgerNext == LCreate \/ LBuy \/ LSell \/ LNextDay

SpecLedger == LedgerInit /\ [][LedgerNext]_vars

(***************************************************************************)
(* C1: the failed entries of a generated matrix form a suffix of the days  *)
(***************************************************************************)
\* the days on which the stock's price, after the day's increment and news drift,
\* is <= 0 (day 0: the initial price is 0)
ZeroDays(s) ==
    (IF initial_prices[s] = 0 THEN {0} ELSE {}) \cup
    { d \in 1..(gen_day - 1) : ~isnan(priced[d][s]) /\ priced[d][s] <= 0 }

\* C1: in every generated row, the entry of a stock is NaN exactly from the first
\* day on which its price was <= 0 (day 0 for an initial price of 0), and every
\* entry before that day is a number > 0; rows still to come are NaN as well
C1_FailedSuffix ==
    \A s \in Stocks : \A d \in 0..(GenDays - 1) :
        LET failed == \E f \in ZeroDays(s) : f <= d
        IN  /\ failed => isnan(share_price_matrix[d][s])
            /\ (~failed /\ d < gen_day) =>
                  (~isnan(share_price_matrix[d][s]) /\ share_price_matrix[d][s] > 0)

\* a finished matrix with a stock that failed on a day after day 0 and before the
\* last day, after being positive
C1_Witness ==
    /\ gen_day = GenDays
    /\ \E s \in Stocks : \E d \in 1..(GenDays - 2) :
          /\ d \in ZeroDays(s)
          /\ ~isnan(share_price_matrix[d - 1][s])
          /\ isnan(share_price_matrix[GenDays - 1][s])

(***************************************************************************)
(* C2: the replay reproduces the in-memory portfolio                       *)
(***************************************************************************)
\* the run so far met no failed price and offered no capital below the fees
PlainRun ==
    /\ \A d \in DOMAIN stock_prices : \A s \in Stocks : ~isnan(stock_prices[d][s])
    /\ \A i \in DOMAIN calls : calls[i].op = "buy" => calls[i].capital >= fees

\* C2: after create_portfolio and any buy and sell calls, read_ledger completes and
\* the last snapshot it reconstructs has one column per stock, holding the share
\* count of the in-memory portfolio (stated for the runs that meet no failed price
\* and always offer a capital that covers the fees, where it fails already)
C2_ReplayLeftInverse ==
    (pc = "run" /\ PlainRun) =>
        LET replayed == read_ledger(ledger)
        IN  /\ ~replayed.raised
            /\ DOMAIN replayed.portfolio[Len(replayed.portfolio)] = Stocks
            /\ \A s \in Stocks :
                  replayed.portfolio[Len(replayed.portfolio)][s] = portfolio[s]

(***************************************************************************)
(* C3: each snapshot is the previous one with the day's trades applied     *)
(***************************************************************************)
RECURSIVE SumShares(_, _)
SumShares(rows, stock) ==
    IF rows = <<>> THEN 0
    ELSE (IF Head(rows).stock = stock THEN Head(rows).shares ELSE 0)
         + SumShares(Tail(rows), stock)

\* C3: when read_ledger completes, the snapshot of every trading day after the first
\* is, for every column, the previous snapshot plus all the shares bought and minus
\* all the shares sold of that stock on that day (stated for the ledgers of runs that
\* meet no failed price and always offer a capital that covers the fees)
C3_SnapshotStep ==
    (pc = "run" /\ PlainRun) =>
        LET replayed == read_ledger(ledger)
            days == trading_days(ledger)
        IN  ~replayed.raised =>
                \A i \in 2..Len(replayed.portfolio) :
                    \A col \in DOMAIN replayed.portfolio[i] :
                        replayed.portfolio[i][col] =
                            replayed.portfolio[i - 1][col]
                            + SumShares(on_day_rows(ledger, "buy", days[i]), col)
                            - SumShares(on_day_rows(ledger, "sell", days[i]), col)

(***************************************************************************)
(* C4: holdings are never negative                                         *)
(***************************************************************************)
\* C4: after create_portfolio and any buy and sell calls every holding is >= 0
C4_HoldingsNonNegative ==
    pc = "run" => \A s \in Stocks : portfolio[s] >= 0

(***************************************************************************)
(* C5, C6: one buy or sell call                                            *)
(***************************************************************************)
\* the step is one buy or sell call of the run (create_portfolio's are apart)
OneCall == pc = "run" /\ pc' = "run" /\ Len(calls') = Len(calls) + 1

TheCall == calls'[Len(calls')]

CallPrice(c) == stock_prices[c.date][c.stock]

\* C5: a buy or sell call on a stock whose price of the day is NaN leaves the ledger
\* as it is, sets the holding of that stock to 0 and leaves every other holding; the
\* buys of create_portfolio on a stock that is failed on day 0 write no record and
\* leave its holding 0
C5_FailedPriceNoOp ==
    [][ /\ (OneCall /\ isnan(CallPrice(TheCall))) =>
              /\ ledger' = ledger
              /\ portfolio' = [portfolio EXCEPT ![TheCall.stock] = 0]
        /\ (pc = "new" /\ pc' = "run") =>
              \A s \in Stocks : isnan(stock_prices[0][s]) =>
                  /\ portfolio'[s] = 0
                  /\ \A i \in DOMAIN ledger' : ledger'[i].stock # s
      ]_vars

\* a call on a failed stock of which shares were held has been made
C5_Witness ==
    /\ pc = "run"
    /\ Len(calls) > NStocks
    /\ LET c == calls[Len(calls)]
       IN  /\ isnan(CallPrice(c))
           /\ c.held > 0
           /\ portfolio[c.stock] = 0
           /\ \A i \in DOMAIN ledger : ledger[i].date # c.date

\* the record of a sale of all the shares held
SellLine(c, held) ==
    Line("sell", c.date, c.stock, held, CallPrice(c), fees, held * CallPrice(c) - fees)

\* C6 as stated: a sell call on a stock whose price of the day is defined appends
\* one sell record with the holding before the call as its share count, whatever
\* that holding is, and sets the holding to 0 (stated for the runs that meet no
\* failed price and always offer a capital that covers the fees, so that the
\* holding is never negative)
C6_SellAlwaysLogs ==
    [][ (OneCall /\ PlainRun /\ TheCall.op = "sell" /\ ~isnan(CallPrice(TheCall))) =>
            /\ ledger' = Append(ledger, SellLine(TheCall, portfolio[TheCall.stock]))
            /\ portfolio' = [portfolio EXCEPT ![TheCall.stock] = 0]
      ]_vars

\* C6 amended: a sell call on a stock whose price of the day is defined appends one
\* sell record with the holding before the call as its share count when that
\* holding is > 0 and appends nothing otherwise; either way it sets the holding to
\* 0 and leaves the other holdings
C6_SellLogsPositive ==
    [][ (OneCall /\ TheCall.op = "sell" /\ ~isnan(CallPrice(TheCall))) =>
            /\ ledger' = IF portfolio[TheCall.stock] > 0
                         THEN Append(ledger, SellLine(TheCall, portfolio[TheCall.stock]))
                         ELSE ledger
            /\ portfolio' = [portfolio EXCEPT ![TheCall.stock] = 0]
      ]_vars

\* a sale of shares held has been logged, and a sell call with nothing held has
\* been made after it
C6_Witness ==
    /\ pc = "run"
    /\ \E i, j \in DOMAIN calls :
          /\ i > NStocks /\ j > i
          /\ calls[i].op = "sell" /\ calls[j].op = "sell"
          /\ ~isnan(CallPrice(calls[i])) /\ ~isnan(CallPrice(calls[j]))
          /\ calls[i].held > 0 /\ calls[j].held = 0
          /\ \E k \in DOMAIN ledger : ledger[k] = SellLine(calls[i], calls[i].held)

(***************************************************************************)
(* indicators.py: moving_average without weights, the stochastic           *)
(* oscillator. An indicator value is a fraction num/den of integers, so    *)
(* that comparisons are exact; den = 0 is NaN.                             *)
(***************************************************************************)
Rational(num, den) == [num |-> num, den |-> den]

RNaN == Rational(0, 0)

risnan(x) == x.den = 0

\* x < y, x <= y, x > y, x >= y on floats: False when either is NaN
RLt(x, y) == ~risnan(x) /\ ~risnan(y) /\ x.num * y.den < y.num * x.den
RLe(x, y) == ~risnan(x) /\ ~risnan(y) /\ x.num * y.den <= y.num * x.den
RGt(x, y) == RLt(y, x)
RGe(x, y) == RLe(y, x)

\* the prices of stock s in stock_prices[(day - (n - 1)) : (day + 1)]
WindowPrices(prices, n, day, s) == { prices[d][s] : d \in (day - (n - 1))..day }

RECURSIVE SumPrices(_, _, _, _)
SumPrices(prices, from, to, s) ==
    IF from > to THEN 0 ELSE prices[from][s] + SumPrices(prices, from + 1, to, s)

\* moving_average, lines 26-37 (weights = []): the entry ma[day, s]
moving_average_short(prices, n, day, s) ==
    IF day < n - 1 THEN RNaN
    ELSE IF n <= 0 THEN RNaN
    ELSE IF NaN \in WindowPrices(prices, n, day, s) THEN RNaN
    ELSE Rational(SumPrices(prices, day - (n - 2), day, s), n)

moving_average(prices, n, day, s) ==
    IF day < n - 1 THEN RNaN
    ELSE IF n <= 0 THEN RNaN    \* np.mean of the empty slice [(day - (n - 1)) : (day + 1)]
    ELSE IF NaN \in WindowPrices(prices, n, day, s) THEN RNaN
    ELSE Rational(SumPrices(prices, day - (n - 1), day, s), n)

SetMax(S) == CHOOSE x \in S : \A y \in S : y <= x
SetMin(S) == CHOOSE x \in S : \A y \in S : x <= y

\* oscillator, lines 70-87 (osc_type = 'stochastic', no smoothing): the entry
\* osc[day, s]; a window with a NaN, or a flat one (0 / 0), gives NaN
oscillator(prices, n, day, s) ==
    IF day < n - 1 THEN RNaN
    ELSE IF NaN \in WindowPrices(prices, n, day, s) THEN RNaN
    ELSE LET max_price == SetMax(WindowPrices(prices, n, day, s))
             min_price == SetMin(WindowPrices(prices, n, day, s))
         IN  IF max_price = min_price THEN RNaN
             ELSE Rational(prices[day][s] - min_price, max_price - min_price)

(***************************************************************************)
(* strategy.py: crossing_averages and momentum                             *)
(***************************************************************************)
\* days of the price matrix of a strategy run (total_days)
StrategyDays == 5

\* the parameters offered to the strategies
AmountSet == {6}
OscillatorPeriods == {3}
WaitTimes == {0, 1, StrategyDays}
SlowPeriods == {2}
FastPeriods == {1}
CoolDownPeriods == {0, 1, 3}

\* the thresholds of momentum: lower = 0.25, upper = 0.75
lower == Rational(1, 4)
upper == Rational(3, 4)

\* np.zeros(stock_prices.shape)
ZeroMatrix == [d \in 0..(StrategyDays - 1) |-> [s \in Stocks |-> 0]]

\* np.any(stocks), stocks an array of stock ids: some id is not 0
np_any(stocks) == \E stock \in stocks : stock # 0

\* for stock in stocks: proc.buy(day, stock, amount, ...)
RECURSIVE buy_each(_, _, _, _, _, _)
buy_each(stocks, day, capital, prices, fee, st) ==
    IF stocks = <<>> THEN st
    ELSE buy_each(Tail(stocks), day, capital, prices, fee,
                  buy(day, Head(stocks), capital, prices, fee, st))

\* for stock in stocks: proc.sell(day, stock, ...)
RECURSIVE sell_each(_, _, _, _, _)
sell_each(stocks, day, prices, fee, st) ==
    IF stocks = <<>> THEN st
    ELSE sell_each(Tail(stocks), day, prices, fee,
                   sell(day, Head(stocks), prices, fee, st))

\* the calls of such a loop, each with the holding before it
RECURSIVE call_each(_, _, _, _, _, _)
call_each(op, stocks, day, capital, held, why) ==
    IF stocks = <<>> THEN <<>>
    ELSE <<Call(op, day, Head(stocks), capital, held[Head(stocks)], why)>>
         \o call_each(op, Tail(stocks), day, capital, held, why)

\* the buys and then the sells of one day of a strategy, and their calls
Trade(day, to_buy, to_sell, prices, st) ==
    LET bought == buy_each(SortedSeq(to_buy), day, amount, prices, fees, st)
        sold == sell_each(SortedSeq(to_sell), day, prices, fees, bought)
    IN  [st |-> sold,
         calls |-> call_each("buy", SortedSeq(to_buy), day, amount, st.portfolio, "signal")
                   \o call_each("sell", SortedSeq(to_sell), day, 0, bought.portfolio, "signal")]

\* matrix[rows, stocks] = 1
Mark(matrix, rows, stocks) ==
    [d \in DOMAIN matrix |->
        [s \in Stocks |-> IF d \in rows /\ s \in stocks THEN 1 ELSE matrix[d][s]]]

\* crossing_averages, lines 101-122: one day of the loop
crossing_day(day, prices, st) ==
    LET n_day_MA(d, s) == moving_average(prices, period_n, d, s)
        m_day_MA(d, s) == moving_average(prices, period_m, d, s)
        checked == PyIndex(day - cool_down_period - 1, StrategyDays)
        stocks_to_buy ==
            { s \in Stocks : /\ RLt(m_day_MA(day - 1, s), n_day_MA(day - 1, s))
                             /\ RGt(m_day_MA(day, s), n_day_MA(day, s))
                             /\ buy_cool_down_matrix[checked][s] # 1 }
        stocks_to_sell ==
            { s \in Stocks : /\ RGt(m_day_MA(day - 1, s), n_day_MA(day - 1, s))
                             /\ RLt(m_day_MA(day, s), n_day_MA(day, s))
                             /\ sell_cool_down_matrix[checked][s] # 1 }
        cooled == PySlice(day - cool_down_period, day, StrategyDays)
        traded == Trade(day, IF np_any(stocks_to_buy) THEN stocks_to_buy ELSE {},
                        IF np_any(stocks_to_sell) THEN stocks_to_sell ELSE {}, prices, st)
    IN  IF PyIndexError(day - cool_down_period - 1, StrategyDays)
        THEN [raised |-> TRUE, st |-> st, calls |-> <<>>,
              buy_matrix |-> buy_cool_down_matrix, sell_matrix |-> sell_cool_down_matrix]
        ELSE [raised |-> FALSE, st |-> traded.st, calls |-> traded.calls,
              buy_matrix |-> IF np_any(stocks_to_buy)
                             THEN Mark(buy_cool_down_matrix, cooled, stocks_to_buy)
                             ELSE buy_cool_down_matrix,
              sell_matrix |-> IF np_any(stocks_to_sell)
                              THEN Mark(sell_cool_down_matrix, cooled, stocks_to_sell)
                              ELSE sell_cool_down_matrix]

\* momentum, lines 188-212 (wait_time > 0): one day of the loop
momentum_wait_day(day, prices, st) ==
    LET osc(d, s) == oscillator(prices, period_n, d, s)
        stocks_to_buy_later ==
            { s \in Stocks : RLt(osc(day, s), lower) /\ RGe(osc(day - 1, s), lower) }
        buy_matrix == Mark(buy_indicator_matrix, {day}, stocks_to_buy_later)
        stocks_to_sell_later ==
            { s \in Stocks : RGt(osc(day, s), upper) /\ RLe(osc(day - 1, s), upper) }
        sell_matrix == Mark(sell_indicator_matrix, {day}, stocks_to_sell_later)
        waited == PyIndex(day - wait_time, StrategyDays)
        stayed == PySlice(day - wait_time, day + 1, StrategyDays)
        stocks_to_buy_now ==
            { s \in Stocks : /\ buy_matrix[waited][s] = 1
                             /\ \A d \in stayed : RLt(osc(d, s), lower) }
        stocks_to_sell_now ==
            { s \in Stocks : /\ sell_matrix[waited][s] = 1
                             /\ \A d \in stayed : RGt(osc(d, s), upper) }
        traded == Trade(day, IF np_any(stocks_to_buy_now) THEN stocks_to_buy_now ELSE {},
                        IF np_any(stocks_to_sell_now) THEN stocks_to_sell_now ELSE {},
                        prices, st)
    IN  IF PyIndexError(day - wait_time, StrategyDays)
        THEN [raised |-> TRUE, st |-> st, calls |-> <<>>,
              buy_matrix |-> buy_matrix, sell_matrix |-> sell_indicator_matrix]
        ELSE [raised |-> FALSE, st |-> traded.st, calls |-> traded.calls,
              buy_matrix |-> buy_matrix, sell_matrix |-> sell_matrix]

\* momentum, lines 216-232 (wait_time = 0): one day of the loop
momentum_now_day(day, prices, st) ==
    LET osc(d, s) == oscillator(prices, period_n, d, s)
        stocks_to_buy_now ==
            { s \in Stocks : RLt(osc(day, s), lower) /\ RGe(osc(day - 1, s), lower) }
        stocks_to_sell_now ==
            { s \in Stocks : RGt(osc(day, s), upper) /\ RLe(osc(day - 1, s), upper) }
        traded == Trade(day, IF np_any(stocks_to_buy_now) THEN stocks_to_buy_now ELSE {},
                        IF np_any(stocks_to_sell_now) THEN stocks_to_sell_now ELSE {},
                        prices, st)
    IN  [raised |-> FALSE, st |-> traded.st, calls |-> traded.calls,
         buy_matrix |-> buy_indicator_matrix, sell_matrix |-> sell_indicator_matrix]

momentum_day(day, prices, st) ==
    IF wait_time > 0 THEN momentum_wait_day(day, prices, st)
    ELSE momentum_now_day(day, prices, st)

\* the price matrices of `days` days with the absorbing property
StrategyNextRows(row) ==
    { r \in [Stocks -> PriceSet \cup {NaN}] : \A s \in Stocks : isnan(row[s]) => isnan(r[s]) }

RECURSIVE PriceMatrices(_)
PriceMatrices(days) ==
    IF days = 1 THEN [{0} -> [Stocks -> PriceSet \cup {NaN}]]
    ELSE UNION { { ExtendMatrix(mat, days - 1, row) : row \in StrategyNextRows(mat[days - 2]) } :
                 mat \in PriceMatrices(days - 1) }

\* the rows of the price matrix a strategy has read when its loop reaches `day`:
\* the rows of later days are drawn as the loop reaches them
StrategyStart(first_day) ==
    /\ GenIdle
    /\ IndicatorIdle
    /\ DrawIdle
    /\ ReplayIdle
    /\ stock_prices \in PriceMatrices(first_day)
    /\ fees \in FeeSet
    /\ amount \in AmountSet
    /\ portfolio = [s \in Stocks |-> 0]
    /\ ledger = <<>>
    /\ calls = <<>>
    /\ today = 0
    /\ pc = "new"

\* lines 81-98 and 165-181: create_portfolio, then the first day of the loop
StrategyCreate(first_day) ==
    /\ pc = "new"
    /\ LET st == create_portfolio([s \in Stocks |-> amount], stock_prices, fees, ledger)
       IN  /\ portfolio' = st.portfolio
           /\ ledger' = st.ledger
           /\ calls' = create_calls(0, [s \in Stocks |-> amount], calls)
    /\ today' = first_day
    /\ pc' = "loop"
    /\ UNCHANGED <<stock_prices, fees>>
    /\ UNCHANGED <<genVars, paramVars, matrixVars, indVars, drawVars, replayVars>>

\* lines 125-126 and 234-235: the portfolio is sold on the last day
StrategyClose ==
    /\ strategy \in {"crossing_averages", "momentum"}
    /\ pc = "loop"
    /\ today = StrategyDays
    /\ LET every == SortedSeq(Stocks)
           st == sell_each(every, StrategyDays - 1, stock_prices, fees, RunState)
       IN  /\ portfolio' = st.portfolio
           /\ ledger' = st.ledger
           /\ calls' = calls \o call_each("sell", every, StrategyDays - 1, 0, portfolio, "close")
    /\ pc' = "done"
    /\ UNCHANGED <<stock_prices, fees, today>>
    /\ UNCHANGED <<genVars, paramVars, matrixVars, indVars, drawVars, replayVars>>

CrossingInit ==
    /\ strategy = "crossing_averages"
    /\ period_n \in SlowPeriods
    /\ period_m \in FastPeriods
    /\ cool_down_period \in CoolDownPeriods
    /\ wait_time = 0
    /\ buy_cool_down_matrix = ZeroMatrix
    /\ sell_cool_down_matrix = ZeroMatrix
    /\ buy_indicator_matrix = <<>>
    /\ sell_indicator_matrix = <<>>
    /\ StrategyStart(period_n)

CrossingCreate == strategy = "crossing_averages" /\ StrategyCreate(period_n)

CrossingDay ==
    /\ strategy = "crossing_averages"
    /\ pc = "loop"
    /\ today < StrategyDays
    /\ \E row \in StrategyNextRows(stock_prices[today - 1]) :
          LET prices == ExtendMatrix(stock_prices, today, row)
              done == crossing_day(today, prices, RunState)
          IN  /\ stock_prices' = prices
              /\ portfolio' = done.st.portfolio
              /\ ledger' = done.st.ledger
              /\ calls' = calls \o done.calls
              /\ buy_cool_down_matrix' = done.buy_matrix
              /\ sell_cool_down_matrix' = done.sell_matrix
              /\ pc' = IF done.raised THEN "raised" ELSE "loop"
    /\ today' = today + 1
    /\ UNCHANGED <<fees, buy_indicator_matrix, sell_indicator_matrix>>
    /\ UNCHANGED <<genVars, paramVars, indVars, drawVars, replayVars>>

CrossingNext == CrossingCreate \/ CrossingDay \/ StrategyClose

SpecCrossing == CrossingInit /\ [][CrossingNext]_vars

\* lines 177-181: the first day of the loop of momentum
day_1(n, smoothing) == IF smoothing # 0 THEN n + smoothing - 1 ELSE n - 1

MomentumInit ==
    /\ strategy = "momentum"
    /\ period_n \in OscillatorPeriods
    /\ period_m = 0
    /\ cool_down_period = 0
    /\ wait_time \in WaitTimes
    /\ buy_indicator_matrix = ZeroMatrix
    /\ sell_indicator_matrix = ZeroMatrix
    /\ buy_cool_down_matrix = <<>>
    /\ sell_cool_down_matrix = <<>>
    /\ StrategyStart(day_1(period_n, 0))

MomentumCreate == strategy = "momentum" /\ StrategyCreate(day_1(period_n, 0))

MomentumDay ==
    /\ strategy = "momentum"
    /\ pc = "loop"
    /\ today < StrategyDays
    /\ \E row \in StrategyNextRows(stock_prices[today - 1]) :
          LET prices == ExtendMatrix(stock_prices, today, row)
              done == momentum_day(today, prices, RunState)
          IN  /\ stock_prices' = prices
              /\ portfolio' = done.st.portfolio
              /\ ledger' = done.st.ledger
              /\ calls' = calls \o done.calls
              /\ buy_indicator_matrix' = done.buy_matrix
              /\ sell_indicator_matrix' = done.sell_matrix
              /\ pc' = IF done.raised THEN "raised" ELSE "loop"
    /\ today' = today + 1
    /\ UNCHANGED <<fees, buy_cool_down_matrix, sell_cool_down_matrix>>
    /\ UNCHANGED <<genVars, paramVars, indVars, drawVars, replayVars>>

MomentumNext == MomentumCreate \/ MomentumDay \/ StrategyClose

SpecMomentum == MomentumInit /\ [][MomentumNext]_vars

(***************************************************************************)
(* strategy.py: random                                                     *)
(*                                                                         *)
(* random reads the price matrix on day 0, on the days of its loop and on  *)
(* the last day only: stock_prices holds the rows of these days.           *)
(***************************************************************************)
\* the periods offered to random
RandomPeriods == {2}

\* rng.integers(-1, 2, size = N)
RandomArrays == [Stocks -> {-1, 0, 1}]

\* the row of the latest day read so far
LatestRow(mat) == mat[CHOOSE d \in DOMAIN mat : \A e \in DOMAIN mat : e <= d]

\* the matrix with the row of `day` read
ReadRow(mat, day, row) ==
    [d \in (DOMAIN mat) \cup {day} |-> IF d = day THEN row ELSE mat[d]]

\* lines 48-51: for stock in stocks_to_sell: if portfolio[stock] > 0: proc.sell(...)
RECURSIVE sell_held_each(_, _, _, _, _)
sell_held_each(stocks, day, prices, fee, st) ==
    IF stocks = <<>> THEN st
    ELSE sell_held_each(Tail(stocks), day, prices, fee,
                        IF st.portfolio[Head(stocks)] > 0
                        THEN sell(day, Head(stocks), prices, fee, st)
                        ELSE st)

\* random, lines 34-51: one day of the loop
random_day(day, random_array, prices, st) ==
    LET stocks_to_buy == { s \in Stocks : random_array[s] = 1 }
        stocks_to_sell == { s \in Stocks : random_array[s] = -1 }
        bought == buy_each(SortedSeq(stocks_to_buy), day, amount, prices, fees, st)
        sold == sell_held_each(SortedSeq(stocks_to_sell), day, prices, fees, bought)
        held == { s \in stocks_to_sell : bought.portfolio[s] > 0 }
    IN  [st |-> sold,
         calls |-> call_each("buy", SortedSeq(stocks_to_buy), day, amount, st.portfolio, "random")
                   \o call_each("sell", SortedSeq(held), day, 0, bought.portfolio, "random")]

RandomInit ==
    /\ strategy = "random"
    /\ period_n \in RandomPeriods
    /\ period_m = 0
    /\ cool_down_period = 0
    /\ wait_time = 0
    /\ buy_indicator_matrix = <<>>
    /\ sell_indicator_matrix = <<>>
    /\ buy_cool_down_matrix = <<>>
    /\ sell_cool_down_matrix = <<>>
    /\ StrategyStart(1)

\* lines 22-31
RandomCreate == strategy = "random" /\ StrategyCreate(period_n)

RandomDay ==
    /\ strategy = "random"
    /\ pc = "loop"
    /\ today < StrategyDays
    /\ \E row \in NextRows(LatestRow(stock_prices)), random_array \in RandomArrays :
          LET prices == ReadRow(stock_prices, today, row)
              done == random_day(today, random_array, prices, RunState)
          IN  /\ stock_prices' = prices
              /\ portfolio' = done.st.portfolio
              /\ ledger' = done.st.ledger
              /\ calls' = calls \o done.calls
    /\ today' = today + period_n
    /\ UNCHANGED <<fees, pc>>
    /\ UNCHANGED <<genVars, paramVars, matrixVars, indVars, drawVars, replayVars>>

\* lines 54-55: the portfolio is sold on the last day
RandomClose ==
    /\ strategy = "random"
    /\ pc = "loop"
    /\ today >= StrategyDays
    /\ \E row \in (IF StrategyDays - 1 \in DOMAIN stock_prices
                   THEN {stock_prices[StrategyDays - 1]}
                   ELSE NextRows(LatestRow(stock_prices))) :
          LET prices == ReadRow(stock_prices, StrategyDays - 1, row)
              every == SortedSeq(Stocks)
              st == sell_each(every, StrategyDays - 1, prices, fees, RunState)
          IN  /\ stock_prices' = prices
              /\ portfolio' = st.portfolio
              /\ ledger' = st.ledger
              /\ calls' = calls \o call_each("sell", every, StrategyDays - 1, 0, portfolio, "close")
    /\ pc' = "done"
    /\ UNCHANGED <<fees, today>>
    /\ UNCHANGED <<genVars, paramVars, matrixVars, indVars, drawVars, replayVars>>

RandomNext == RandomCreate \/ RandomDay \/ RandomClose

SpecRandom == RandomInit /\ [][RandomNext]_vars

\* a run of any of the three strategies
StrategiesInit == RandomInit \/ CrossingInit \/ MomentumInit

StrategiesNext == RandomNext \/ CrossingNext \/ MomentumNext

SpecStrategies == StrategiesInit /\ [][StrategiesNext]_vars

(***************************************************************************)
(* Claims about the strategies                                             *)
(***************************************************************************)
\* the oscillator and the averages of the prices the run has read
Osc(d, s) == oscillator(stock_prices, period_n, d, s)
SlowMA(d, s) == moving_average(stock_prices, period_n, d, s)
FastMA(d, s) == moving_average(stock_prices, period_m, d, s)

\* the days the loop of the strategy has completed
LoopDays(first_day) == IF pc \in {"loop", "done"} THEN first_day..(today - 1) ELSE {}

\* buy (sell) was called for stock s on day d because of a signal
SignalCall(op, d, s) ==
    \E i \in DOMAIN calls :
        calls[i].why = "signal" /\ calls[i].op = op /\ calls[i].date = d /\ calls[i].stock = s

SignalCalls(op) == { i \in DOMAIN calls : calls[i].why = "signal" /\ calls[i].op = op }

\* C7: in momentum with wait_time = w > 0 every signal-triggered buy (sell) of
\* stock s on day d follows a crossing of s below lower (above upper) on day
\* d - w, the oscillator staying strictly below lower (above upper) on every
\* day d - w .. d.
C7_TradeFollowsCrossing ==
    wait_time > 0 =>
        /\ \A i \in SignalCalls("buy") :
              LET d == calls[i].date
                  s == calls[i].stock
              IN  /\ d - wait_time - 1 >= 0
                  /\ RLt(Osc(d - wait_time, s), lower)
                  /\ RGe(Osc(d - wait_time - 1, s), lower)
                  /\ \A k \in (d - wait_time)..d : RLt(Osc(k, s), lower)
        /\ \A i \in SignalCalls("sell") :
              LET d == calls[i].date
                  s == calls[i].stock
              IN  /\ d - wait_time - 1 >= 0
                  /\ RGt(Osc(d - wait_time, s), upper)
                  /\ RLe(Osc(d - wait_time - 1, s), upper)
                  /\ \A k \in (d - wait_time)..d : RGt(Osc(k, s), upper)

\* C8: in momentum with wait_time = 0, for every day d of the loop and every
\* stock s, a crossing of s below lower between d - 1 and d has buy called for
\* s on day d, and a crossing above upper has sell called for s on day d.
C8_TradeOnCrossingDay ==
    wait_time = 0 =>
        \A d \in LoopDays(period_n - 1), s \in Stocks :
            /\ (RGe(Osc(d - 1, s), lower) /\ RLt(Osc(d, s), lower))
                  => SignalCall("buy", d, s)
            /\ (RLe(Osc(d - 1, s), upper) /\ RGt(Osc(d, s), upper))
                  => SignalCall("sell", d, s)

\* stock s is in a cool-down of this kind on day d: a signal-triggered trade of
\* the kind happened on one of the cool_down_period days before d
InCoolDown(op, d, s) ==
    \E d0 \in (d - cool_down_period)..(d - 1) : SignalCall(op, d0, s)

\* C9: in crossing_averages, for every day d >= n and every stock s not in a
\* cool-down of the same kind, the fast average crossing the slow one from
\* below between d - 1 and d has buy called for s on d, and crossing it from
\* above has sell called for s on d.
C9_TradeOnAverageCrossing ==
    \A d \in LoopDays(period_n), s \in Stocks :
        /\ (/\ RLt(FastMA(d - 1, s), SlowMA(d - 1, s))
            /\ RGt(FastMA(d, s), SlowMA(d, s))
            /\ ~InCoolDown("buy", d, s))
              => SignalCall("buy", d, s)
        /\ (/\ RGt(FastMA(d - 1, s), SlowMA(d - 1, s))
            /\ RLt(FastMA(d, s), SlowMA(d, s))
            /\ ~InCoolDown("sell", d, s))
              => SignalCall("sell", d, s)

\* C10: in crossing_averages, after a signal-triggered buy (sell) of stock s on
\* day d there is no signal-triggered buy (sell) of s on the days
\* d + 1 .. d + cool_down_period.
C10_CoolDownSuppresses ==
    \A op \in {"buy", "sell"} :
        \A i \in SignalCalls(op), j \in SignalCalls(op) :
            (calls[i].stock = calls[j].stock /\ calls[i].date < calls[j].date)
                => calls[j].date > calls[i].date + cool_down_period

\* C11: a strategy starts with create_portfolio, one buy call per stock on day
\* 0 in stock order before any ledger record, and ends with a sell call for
\* every stock on the final day; when it has returned every holding is 0.
C11_CreateFirstCloseLast ==
    /\ pc = "new" => (calls = <<>> /\ ledger = <<>>)
    /\ pc \in {"loop", "done"} =>
          /\ Len(calls) >= NStocks
          /\ \A s \in Stocks :
                /\ calls[s + 1].op = "buy"
                /\ calls[s + 1].date = 0
                /\ calls[s + 1].stock = s
                /\ calls[s + 1].why = "create"
    /\ pc = "done" =>
          /\ Len(calls) >= 2 * NStocks
          /\ \A s \in Stocks :
                LET last == calls[Len(calls) - NStocks + s + 1]
                IN  last.op = "sell" /\ last.date = StrategyDays - 1 /\ last.stock = s
          /\ \A s \in Stocks : portfolio[s] = 0

\* a stock bought on day 0 has failed by the last day of a finished run
C11_Witness ==
    /\ pc = "done"
    /\ \E s \in Stocks :
          /\ ~isnan(stock_prices[0][s])
          /\ isnan(stock_prices[StrategyDays - 1][s])
          /\ calls[Len(calls) - NStocks + s + 1].held > 0

(***************************************************************************)
(* indicators.py: the weighted moving average, the RSI oscillator, the     *)
(* smoothing of an oscillator, and the matrices the two functions return   *)
(***************************************************************************)
\* days of the price matrix an indicator is called on
IndicatorDays == 4

\* arithmetic on floats
RAdd(x, y) ==
    IF risnan(x) \/ risnan(y) THEN RNaN
    ELSE Rational(x.num * y.den + y.num * x.den, x.den * y.den)

RSub(x, y) ==
    IF risnan(x) \/ risnan(y) THEN RNaN
    ELSE Rational(x.num * y.den - y.num * x.den, x.den * y.den)

\* x / y for y > 0 or NaN
RDiv(x, y) ==
    IF risnan(x) \/ risnan(y) \/ y.num <= 0 THEN RNaN
    ELSE Rational(x.num * y.den, x.den * y.num)

REq(x, y) == ~risnan(x) /\ ~risnan(y) /\ x.num * y.den = y.num * x.den

\* the two values are the same float, NaN included
RSame(x, y) == (risnan(x) /\ risnan(y)) \/ REq(x, y)

\* weights: the empty list, or a list of fractions num[i] / den
NoWeights == <<>>
Weights(num, den) == [num |-> num, den |-> den]

\* np.matmul(weights_array, stock_prices[(day - (n - 1)) : (day + 1)]) for
\* stock s: weights[0] meets the oldest day of the window
RECURSIVE DotPrices(_, _, _, _, _)
DotPrices(num, prices, first, i, s) ==
    IF i > Len(num) THEN 0
    ELSE num[i] * prices[first + i - 1][s] + DotPrices(num, prices, first, i + 1, s)

RECURSIVE SumOver(_, _)
SumOver(f, S) ==
    IF S = {} THEN 0
    ELSE LET s == CHOOSE t \in S : TRUE IN f[s] + SumOver(f, S \ {s})

\* moving_average, lines 40-45 (weights given): the entry ma[day, s]. np.sum
\* (..., axis = 0) of the vector of the products of the stocks is one number,
\* written to every stock of the row
weighted_moving_average(prices, n, w, day, s) ==
    IF day < n - 1 THEN RNaN
    ELSE IF \E t \in Stocks : NaN \in WindowPrices(prices, n, day, t) THEN RNaN
    ELSE Rational(SumOver([t \in Stocks |-> DotPrices(w.num, prices, day - (n - 1), 1, t)],
                          Stocks), w.den)

\* moving_average raises: ma[day] = ... with day = n - 1 before the first row
moving_average_raises(n, days) == n - 1 < 0 /\ PyIndexError(n - 1, days)

\* the matrix moving_average returns
moving_average_matrix(prices, n, w) ==
    [d \in DOMAIN prices |->
        [s \in Stocks |-> IF w = NoWeights
                          THEN moving_average(prices, n, d, s)
                          ELSE weighted_moving_average(prices, n, w, d, s)]]

\* oscillator, lines 93-157 (osc_type = 'RSI'): the row osc[day]
Difference(prices, day, s) ==
    IF isnan(prices[day][s]) \/ isnan(prices[day - 1][s]) THEN NaN
    ELSE prices[day][s] - prices[day - 1][s]

RSI(prices, n, day) ==
    LET window == (day - (n - 2))..day
        positive(s) == { d \in window : ~isnan(Difference(prices, d, s))
                                        /\ Difference(prices, d, s) > 0 }
        negative(s) == { d \in window : ~isnan(Difference(prices, d, s))
                                        /\ Difference(prices, d, s) < 0 }
        stock_where_no_neg == { s \in Stocks : negative(s) = {} }
        stock_where_no_pos == { s \in Stocks : positive(s) = {} }
        x == IF stock_where_no_neg # {} THEN 1 ELSE 0
        y == IF stock_where_no_pos # {} THEN 1 ELSE 0
        \* np.nanmean of a column, NaN where line 136 or 143 puts it
        average_positive(s) ==
            IF s \in stock_where_no_pos THEN RNaN
            ELSE Rational(SumOver([d \in window |-> Difference(prices, d, s)], positive(s)),
                          Cardinality(positive(s)))
        average_negative(s) ==
            IF s \in stock_where_no_neg THEN RNaN
            ELSE Rational(0 - SumOver([d \in window |-> Difference(prices, d, s)], negative(s)),
                          Cardinality(negative(s)))
        RS(s) == RDiv(average_positive(s), average_negative(s))
        \* line 129: some entry of positive_differences and some entry of
        \* negative_differences is not 0
        as_normal == stock_where_no_pos # Stocks /\ stock_where_no_neg # Stocks
        computed(s) ==
            IF as_normal
            THEN RSub(Rational(1, 1), RDiv(Rational(1, 1), RAdd(Rational(1, 1), RS(s))))
            ELSE Rational(0, 1)
        high(s) == IF x = 1 /\ s \in stock_where_no_neg THEN Rational(1, 1) ELSE computed(s)
    IN  [s \in Stocks |-> IF y = 1 /\ s \in stock_where_no_pos THEN Rational(0, 1) ELSE high(s)]

\* osc before smoothing
base_oscillator(prices, n, type, day, s) ==
    IF day < n - 1 THEN RNaN
    ELSE IF type = "stochastic" THEN oscillator(prices, n, day, s)
    ELSE RSI(prices, n, day)[s]

\* moving_average(osc[(n - 1):], n = smoothing_period), lines 26-37 on the rows
\* of the oscillator: the entry of the row that is day `day` of the prices
RECURSIVE SumBase(_, _, _, _, _, _)
SumBase(prices, n, type, from, to, s) ==
    IF from > to THEN Rational(0, 1)
    ELSE RAdd(base_oscillator(prices, n, type, from, s),
              SumBase(prices, n, type, from + 1, to, s))

RECURSIVE NanSumBase(_, _, _, _, _, _)
NanSumBase(prices, n, type, from, to, s) ==
    IF from > to THEN Rational(0, 1)
    ELSE IF risnan(base_oscillator(prices, n, type, from, s))
         THEN NanSumBase(prices, n, type, from + 1, to, s)
         ELSE RAdd(base_oscillator(prices, n, type, from, s),
                   NanSumBase(prices, n, type, from + 1, to, s))

smoothed_oscillator_nanmean(prices, n, type, smoothing, day, s) ==
    IF day < n - 1 THEN RNaN
    ELSE IF day - (n - 1) < smoothing - 1 THEN RNaN
    ELSE LET total == NanSumBase(prices, n, type, day - (smoothing - 1), day, s)
         IN  Rational(total.num, total.den * smoothing)

smoothed_oscillator(prices, n, type, smoothing, day, s) ==
    IF day < n - 1 THEN RNaN
    ELSE IF day - (n - 1) < smoothing - 1 THEN RNaN
    ELSE LET total == SumBase(prices, n, type, day - (smoothing - 1), day, s)
         IN  IF risnan(total) THEN RNaN ELSE Rational(total.num, total.den * smoothing)

\* the matrix oscillator returns, lines 159-175
oscillator_matrix(prices, n, type, smoothing) ==
    [d \in DOMAIN prices |->
        [s \in Stocks |-> IF smoothing # 0
                          THEN smoothed_oscillator(prices, n, type, smoothing, d, s)
                          ELSE base_oscillator(prices, n, type, d, s)]]

\* the arguments offered to the indicators
AveragePeriods == {0, 1, 2, 3}
WeightChoices == {Weights(<<1, 1>>, 2), Weights(<<1, 3>>, 4)}
OscillatorTypes == {"stochastic", "RSI"}
OscillatorWindows == {2, 3}
SmoothingPeriods == {0, 2}

IndicatorStart ==
    /\ GenIdle
    /\ DrawIdle
    /\ ReplayIdle
    /\ strategy = "none"
    /\ amount = 0 /\ period_m = 0 /\ wait_time = 0 /\ cool_down_period = 0
    /\ buy_indicator_matrix = <<>> /\ sell_indicator_matrix = <<>>
    /\ buy_cool_down_matrix = <<>> /\ sell_cool_down_matrix = <<>>
    /\ stock_prices \in PriceMatrices(IndicatorDays)
    /\ fees = 0 /\ portfolio = <<>> /\ ledger = <<>> /\ calls = <<>> /\ today = 0
    /\ indicator = <<>>

MovingAverageInit ==
    /\ pc = "moving_average"
    /\ \/ weights = NoWeights /\ period_n \in AveragePeriods
       \/ weights \in WeightChoices /\ period_n = Len(weights.num)
    /\ osc_type = "none"
    /\ smoothing_period = 0
    /\ IndicatorStart

\* moving_average, lines 18-48
MovingAverageCall ==
    /\ pc = "moving_average"
    /\ IF moving_average_raises(period_n, IndicatorDays)
       THEN pc' = "raised" /\ UNCHANGED indicator
       ELSE /\ pc' = "returned"
            /\ indicator' = moving_average_matrix(stock_prices, period_n, weights)
    /\ UNCHANGED <<stock_prices, fees, portfolio, ledger, calls, today>>
    /\ UNCHANGED <<genVars, paramVars, matrixVars, weights, osc_type, smoothing_period>>
    /\ UNCHANGED <<drawVars, replayVars>>

MovingAverageNext == MovingAverageCall

SpecMovingAverage == MovingAverageInit /\ [][MovingAverageNext]_vars

OscillatorInit ==
    /\ pc = "oscillator"
    /\ weights = NoWeights
    /\ period_n \in OscillatorWindows
    /\ osc_type \in OscillatorTypes
    /\ smoothing_period \in SmoothingPeriods
    /\ IndicatorStart

\* oscillator, lines 65-175
OscillatorCall ==
    /\ pc = "oscillator"
    /\ pc' = "returned"
    /\ indicator' = oscillator_matrix(stock_prices, period_n, osc_type, smoothing_period)
    /\ UNCHANGED <<stock_prices, fees, portfolio, ledger, calls, today>>
    /\ UNCHANGED <<genVars, paramVars, matrixVars, weights, osc_type, smoothing_period>>
    /\ UNCHANGED <<drawVars, replayVars>>

OscillatorNext == OscillatorCall

SpecOscillator == OscillatorInit /\ [][OscillatorNext]_vars

(***************************************************************************)
(* Claims about the indicators                                             *)
(***************************************************************************)
IndicatorDaysFrom(first) == first..(IndicatorDays - 1)

\* the trailing window of stock s on day d holds a failed price
FailedInWindow(n, d, s) == NaN \in WindowPrices(stock_prices, n, d, s)

\* the price matrix in which every stock has the prices of stock t
OwnColumn(prices, t) == [d \in DOMAIN prices |-> [s \in Stocks |-> prices[d][t]]]

\* C12: for both oscillator kinds, a failed price in the trailing n-day window
\* of stock s on day d makes the oscillator of s undefined on d and on every
\* later day, and the values of a stock are those it has without the others.
C12_OscillatorAbsorbing ==
    pc = "returned" =>
        /\ \A s \in Stocks, d \in IndicatorDaysFrom(period_n - 1) :
              FailedInWindow(period_n, d, s)
                  => \A e \in IndicatorDaysFrom(d) : risnan(indicator[e][s])
        /\ \A t \in Stocks, d \in IndicatorDaysFrom(0) :
              RSame(indicator[d][t],
                    oscillator_matrix(OwnColumn(stock_prices, t), period_n, osc_type,
                                      smoothing_period)[d][t])

\* the prices in which the failed entries of stock s are the price p
Unfailed(prices, s, p) ==
    [d \in DOMAIN prices |->
        [t \in Stocks |-> IF t = s /\ isnan(prices[d][t]) THEN p ELSE prices[d][t]]]

\* C13: for moving_average, weighted or not, a failed price in the trailing
\* window of stock s on day d makes the average of s undefined on d and on
\* every later day, and the value of another stock t whose own window holds no
\* failed price is the one it has when s has not failed.
C13_AverageAbsorbing ==
    (pc = "returned" /\ period_n >= 1) =>
        /\ \A s \in Stocks, d \in IndicatorDaysFrom(period_n - 1) :
              FailedInWindow(period_n, d, s)
                  => \A e \in IndicatorDaysFrom(d) : risnan(indicator[e][s])
        /\ \A s \in Stocks, t \in Stocks, d \in IndicatorDaysFrom(period_n - 1),
              p \in PriceSet :
              (t # s /\ ~FailedInWindow(period_n, d, t))
                  => RSame(indicator[d][t],
                           moving_average_matrix(Unfailed(stock_prices, s, p),
                                                 period_n, weights)[d][t])

\* the dot product of the weights with the trailing window of stock s, the
\* first weight on the oldest day
OwnDotProduct(n, w, d, s) ==
    IF FailedInWindow(n, d, s) THEN RNaN
    ELSE Rational(SumOver([i \in 1..n |-> w.num[i] * stock_prices[d - n + i][s]], 1..n), w.den)

\* the mean of the prices of stock s on the days d - n + 1 .. d
OwnMean(n, d, s) ==
    IF FailedInWindow(n, d, s) THEN RNaN
    ELSE Rational(SumOver([e \in (d - n + 1)..d |-> stock_prices[e][s]], (d - n + 1)..d), n)

NoFailedPrice == \A d \in DOMAIN stock_prices, s \in Stocks : ~isnan(stock_prices[d][s])

UniformWeights(w) == \A i \in DOMAIN w.num : w.num[i] * Len(w.num) = w.den

\* C14: the weighted moving_average of stock s on day d >= window - 1 is the
\* dot product of the weights with the stock's own trailing window, and with
\* weights [1/window] * window it is the unweighted moving_average (here on
\* the matrices without a failed price).
C14_WeightedIsOwnDotProduct ==
    (pc = "returned" /\ weights # NoWeights /\ NoFailedPrice) =>
        \A s \in Stocks, d \in IndicatorDaysFrom(period_n - 1) :
            /\ RSame(indicator[d][s], OwnDotProduct(period_n, weights, d, s))
            /\ UniformWeights(weights)
                  => RSame(indicator[d][s],
                           moving_average_matrix(stock_prices, period_n, NoWeights)[d][s])

\* C15: on a matrix without failed entries and for 1 <= window <= days, the
\* unweighted moving_average is undefined on the days 0 .. window - 2 and is,
\* per stock, the mean of the prices of the days d - window + 1 .. d on every
\* day d >= window - 1.
C15_UnweightedIsMean ==
    (/\ pc = "returned"
     /\ weights = NoWeights
     /\ NoFailedPrice
     /\ 1 <= period_n /\ period_n <= IndicatorDays) =>
        \A s \in Stocks :
            /\ \A d \in 0..(period_n - 2) : risnan(indicator[d][s])
            /\ \A d \in IndicatorDaysFrom(period_n - 1) :
                  REq(indicator[d][s], OwnMean(period_n, d, s))

\* a 3-day average of prices 1, 2, 2 and 2, 2, 1
C15_Witness ==
    /\ pc = "returned"
    /\ weights = NoWeights
    /\ NoFailedPrice
    /\ period_n = 3
    /\ \E s \in Stocks :
          /\ <<stock_prices[0][s], stock_prices[1][s], stock_prices[2][s], stock_prices[3][s]>>
                = <<1, 2, 2, 1>>
          /\ indicator[1][s] = RNaN
          /\ indicator[2][s] = Rational(5, 3)
          /\ indicator[3][s] = Rational(5, 3)

\* the day-over-day differences of stock s in its trailing window of n days
OwnDifferences(n, d, s) ==
    [e \in (d - n + 2)..d |-> Difference(stock_prices, e, s)]

Positive(f) == { e \in DOMAIN f : ~isnan(f[e]) /\ f[e] > 0 }
Negative(f) == { e \in DOMAIN f : ~isnan(f[e]) /\ f[e] < 0 }

\* avg_pos / (avg_pos + avg_neg), the means of the positive differences and
\* the absolute mean of the negative ones
RelativeStrength(f) ==
    LET avg_pos == Rational(SumOver(f, Positive(f)), Cardinality(Positive(f)))
        avg_neg == Rational(0 - SumOver(f, Negative(f)), Cardinality(Negative(f)))
    IN  RDiv(avg_pos, RAdd(avg_pos, avg_neg))

\* C16: the RSI of a stock on day d >= n - 1 is 1 if its window has no negative
\* difference, 0 if it has no positive difference, and otherwise avg_pos /
\* (avg_pos + avg_neg); it does not depend on the other stocks (here on the
\* windows without a failed price).
C16_RSIValue ==
    (pc = "returned" /\ osc_type = "RSI" /\ smoothing_period = 0) =>
        \A s \in Stocks, d \in IndicatorDaysFrom(period_n - 1) :
            ~FailedInWindow(period_n, d, s) =>
                LET f == OwnDifferences(period_n, d, s)
                IN  /\ IF Negative(f) = {} THEN REq(indicator[d][s], Rational(1, 1))
                       ELSE IF Positive(f) = {} THEN REq(indicator[d][s], Rational(0, 1))
                       ELSE REq(indicator[d][s], RelativeStrength(f))
                    /\ RSame(indicator[d][s],
                             oscillator_matrix(OwnColumn(stock_prices, s), period_n, osc_type,
                                               smoothing_period)[d][s])

\* the days of the p-day window of the smoothing that ends on day d
SmoothingWindow(p, d) == (d - p + 1)..d

BaseUndefined(d, s) == risnan(base_oscillator(stock_prices, period_n, osc_type, d, s))

\* C17: with a smoothing period p # 0 oscillator returns the p-day moving
\* average of the base oscillator: undefined on the first n + p - 2 days,
\* undefined later whenever the base oscillator is undefined on a day of the
\* p-day window, the mean of the window otherwise; the day before the first
\* trading day of momentum, n + p - 1, is past the undefined days.
C17_SmoothingKeepsUndefined ==
    (pc = "returned" /\ smoothing_period # 0) =>
        LET p == smoothing_period
            n == period_n
        IN  /\ \A s \in Stocks, d \in 0..(n + p - 3) :
                  d \in DOMAIN indicator => risnan(indicator[d][s])
            /\ \A s \in Stocks, d \in IndicatorDaysFrom(n + p - 2) :
                  IF \E e \in SmoothingWindow(p, d) : BaseUndefined(e, s)
                  THEN risnan(indicator[d][s])
                  ELSE REq(indicator[d][s],
                           RDiv(SumBase(stock_prices, n, osc_type, d - p + 1, d, s),
                                Rational(p, 1)))
            /\ day_1(n, p) = n + p - 1
            /\ day_1(n, p) - 1 >= n + p - 2

\* a smoothed value is defined on the day before the first trading day of
\* momentum and undefined on that day, the base oscillator being undefined then
C17_Witness ==
    /\ pc = "returned"
    /\ smoothing_period # 0
    /\ day_1(period_n, smoothing_period) \in DOMAIN indicator
    /\ \E s \in Stocks :
          /\ ~risnan(indicator[day_1(period_n, smoothing_period) - 1][s])
          /\ risnan(indicator[day_1(period_n, smoothing_period)][s])
          /\ BaseUndefined(day_1(period_n, smoothing_period), s)
          /\ ~BaseUndefined(day_1(period_n, smoothing_period) - 1, s)

\* C20: moving_average called with n <= 0 fails with an error instead of
\* returning a matrix.
C20_NonPositiveWindowFails ==
    (weights = NoWeights /\ period_n <= 0) => pc # "returned"

(***************************************************************************)
(* data.py: the shapes of the arguments of generate_stock_price, and       *)
(* get_data(method = 'generate')                                           *)
(***************************************************************************)
\* the lengths of the volatility offered with NStocks initial prices
VolatilityLengths == 0..(NStocks + 1)

\* line 92: rng.normal(0, volatility, size = (days - 1, n)) raises unless the
\* volatility broadcasts to n columns
normal_raises(vol, n) == Cardinality(DOMAIN vol) \notin {1, n}

GetDataInit ==
    /\ initial_prices \in [Stocks -> InitialPriceSet]
    /\ \E k \in VolatilityLengths : volatility \in [0..(k - 1) -> VolatilitySet]
    /\ share_price_matrix = <<>>
    /\ gen_day = 0
    /\ priced = <<>>
    /\ news_count = 0
    /\ news_drift = <<>>
    /\ stock_prices = <<>> /\ fees = 0 /\ portfolio = <<>> /\ ledger = <<>>
    /\ calls = <<>> /\ today = 0
    /\ pc \in {"get_data", "generate_stock_price"}
    /\ StrategyIdle
    /\ IndicatorIdle
    /\ DrawIdle
    /\ ReplayIdle

\* get_data, lines 333-349 (method = 'generate'): with too few volatilities it
\* prints a message and then returns sim_data, which was never assigned
GetData ==
    /\ pc = "get_data"
    /\ pc' = IF Cardinality(DOMAIN volatility) < NStocks
             THEN "raised"
             ELSE "generate_stock_price"
    /\ UNCHANGED <<stock_prices, fees, portfolio, ledger, calls, today>>
    /\ UNCHANGED <<genVars, paramVars, matrixVars, indVars, drawVars, replayVars>>

\* generate_stock_price, lines 68-92
GenerateStart ==
    /\ pc = "generate_stock_price"
    /\ IF normal_raises(volatility, NStocks)
       THEN /\ pc' = "raised"
            /\ UNCHANGED <<share_price_matrix, gen_day, priced>>
       ELSE /\ pc' = "days"
            /\ share_price_matrix' = InitialMatrix(GenDays, initial_prices)
            /\ gen_day' = 1
            /\ priced' = [d \in 0..(GenDays - 1) |-> [s \in Stocks |-> NaN]]
    /\ UNCHANGED <<initial_prices, volatility, news_count, news_drift>>
    /\ UNCHANGED <<stock_prices, fees, portfolio, ledger, calls, today>>
    /\ UNCHANGED <<paramVars, matrixVars, indVars, drawVars, replayVars>>

\* line 125
GenerateReturn ==
    /\ pc = "days"
    /\ gen_day = GenDays
    /\ pc' = "returned"
    /\ UNCHANGED <<stock_prices, fees, portfolio, ledger, calls, today>>
    /\ UNCHANGED <<genVars, paramVars, matrixVars, indVars, drawVars, replayVars>>

GetDataNext == GetData \/ GenerateStart \/ GenerateDay \/ GenerateReturn

SpecGetData == GetDataInit /\ [][GetDataNext]_vars

(***************************************************************************)
(* Claims about the price generator                                        *)
(***************************************************************************)
\* C18: a news event of duration k (3 <= k <= 14) firing on day d adds its
\* drift m * volatility[s], with one m for all stocks, to the rows of the days
\* d .. min(d + k, days) - 1 and to no row before d or after that range.
C18_NewsRowsClipped ==
    [][LET d == gen_day
           k == news_drift'.duration
           beyond == IF d + k < GenDays THEN d + k ELSE GenDays
           drift(e, s) == IF d <= e /\ e <= beyond - 1 THEN news_drift'.drift[s] ELSE 0
       IN  /\ news_count' > news_count =>
                 /\ DurationLow <= k /\ k <= DurationHigh
                 /\ \E m \in MagnitudeDraws :
                       \A s \in Stocks : news_drift'.drift[s] = m * volatility[s]
           /\ news_count' = news_count => \A s \in Stocks : news_drift'.drift[s] = 0
           /\ \A e \in 0..(d - 1) : share_price_matrix'[e] = share_price_matrix[e]
           /\ \E z \in [Stocks -> NormalDraws] : \A s \in Stocks :
                 priced'[d][s] =
                     FAdd(FAdd(share_price_matrix[d][s],
                               FAdd(share_price_matrix[d - 1][s], z[s] * volatility[s])),
                          drift(d, s))
           /\ \A e \in (d + 1)..(GenDays - 1), s \in Stocks :
                 share_price_matrix'[e][s] =
                     IF isnan(share_price_matrix'[d][s]) THEN NaN
                     ELSE FAdd(share_price_matrix[e][s], drift(e, s))
      ]_vars

\* a news event of day 1 has reached the rows of the days 2 and 3 and not the
\* row of day 4
C18_Witness ==
    /\ gen_day = 2
    /\ news_count = 1
    /\ news_drift.duration = DurationLow
    /\ \E s \in Stocks :
          /\ ~isnan(share_price_matrix[1][s])
          /\ share_price_matrix[2][s] # 0
          /\ share_price_matrix[3][s] = share_price_matrix[2][s]
          /\ share_price_matrix[4][s] = 0

\* C19: whenever initial_prices and volatility have different lengths, price
\* generation through generate_stock_price and through get_data fails with an
\* error and returns no matrix.
C19_MismatchFails ==
    Cardinality(DOMAIN volatility) # NStocks => pc # "returned"

(***************************************************************************)
(* performance.py: read_ledger as a whole, from the text of the file       *)
(*                                                                         *)
(* The text of the ledger file is the sequence of its lines, a line the    *)
(* sequence of its fields (what stands between the commas and the white    *)
(* space). A field is a word or the decimal text of a number; str() of a   *)
(* number and float() of its text are inverse to each other, so a number   *)
(* field carries the number.                                               *)
(***************************************************************************)
Num(v) == [word |-> "", value |-> v]
Word(w) == [word |-> w, value |-> 0]

\* log_transaction, lines 41 and 60: the fields of the line written for a record
format_line(r) ==
    <<Word(r.type), Num(r.date), Num(r.stock), Num(r.shares), Num(r.price), Num(r.fees),
      Num(r.amount)>>

RECURSIVE format_ledger(_)
format_ledger(lines) ==
    IF lines = <<>> THEN <<>> ELSE <<format_line(Head(lines))>> \o format_ledger(Tail(lines))

\* lines 24-38: the fields of the whole file in one list, the line ends forgotten
RECURSIVE split(_)
split(text) == IF text = <<>> THEN <<>> ELSE Head(text) \o split(Tail(text))

\* line 29: contents.count(w)
count(contents, w) == Cardinality({ i \in DOMAIN contents : contents[i].word = w })

\* lines 42-45 and np.array(contents, dtype = float) of line 51: 'buy' is 1, 'sell'
\* is -1, the text of a number is the number, any other word raises ValueError
float_raises(field) == field.word \notin {"", "buy", "sell"}
float(field) ==
    IF field.word = "buy" THEN 1 ELSE IF field.word = "sell" THEN -1 ELSE field.value

no_of_trades(text) == count(split(text), "buy") + count(split(text), "sell")

\* line 51: float() of a field or reshape(no_of_trades, 7) raises ValueError
parse_raises(text) ==
    \/ \E i \in DOMAIN split(text) : float_raises(split(text)[i])
    \/ Len(split(text)) # no_of_trades(text) * 7

\* line 51: row `row` of ledger_data (rows from 1), as the record of its columns;
\* column 0 is read back as 'buy' where it is 1 and 'sell' where it is -1
ledger_row(contents, row) ==
    LET col(c) == float(contents[7 * (row - 1) + c + 1])
    IN  [type |-> IF col(0) = 1 THEN "buy" ELSE IF col(0) = -1 THEN "sell" ELSE "other",
         date |-> col(1), stock |-> col(2), shares |-> col(3),
         price |-> col(4), fees |-> col(5), amount |-> col(6)]

ledger_data_of(text) ==
    [row \in 1..no_of_trades(text) |-> ledger_row(split(text), row)]

RECURSIVE SumAmounts(_, _)
SumAmounts(ledger_data, keep) ==
    IF keep = {} THEN 0
    ELSE LET i == CHOOSE j \in keep : TRUE
         IN  ledger_data[i].amount + SumAmounts(ledger_data, keep \ {i})

abs(x) == IF x < 0 THEN 0 - x ELSE x

\* line 57, and the same line without np.abs
total_amount_spent_signed(ledger_data) ==
    SumAmounts(ledger_data, { i \in DOMAIN ledger_data : ledger_data[i].amount < 0 })

total_amount_spent(ledger_data) ==
    abs(SumAmounts(ledger_data, { i \in DOMAIN ledger_data : ledger_data[i].amount < 0 }))

\* line 58
total_amount_earned(ledger_data) ==
    SumAmounts(ledger_data, { i \in DOMAIN ledger_data : ledger_data[i].amount > 0 })

\* line 61
total_profit_loss(ledger_data) ==
    total_amount_earned(ledger_data) - total_amount_spent(ledger_data)

\* lines 133-148 (profit_plot = True, the default): profits has one entry per
\* trading day and one more, and the loop moves to the next entry at every row
\* whose day differs from the day of the row before it
day_changes(ledger_data) ==
    Cardinality({ row \in 2..Len(ledger_data) :
                    ledger_data[row].date # ledger_data[row - 1].date })

plot_raises(ledger_data) == day_changes(ledger_data) + 1 > Len(trading_days(ledger_data))

\* line 166: `stock != False`; Python's False equals 0
PyFalse == 0

\* lines 169-170: the distinct days of the records of a type of the stock
dates_of(ledger_data, type, stock) ==
    SortedSeq({ ledger_data[i].date : i \in { j \in DOMAIN ledger_data :
                    ledger_data[j].type = type /\ ledger_data[j].stock = stock } })

\* line 173
earned_from_stock(ledger_data, stock) ==
    SumAmounts(ledger_data, { i \in DOMAIN ledger_data : ledger_data[i].stock = stock })

\* lines 121-127
final_portfolio(snapshots) ==
    IF Len(snapshots) > 1 THEN snapshots[Len(snapshots) - 1] ELSE snapshots[1]

Raised == [raised |-> TRUE]

\* read_ledger, lines 21-180: what the call returns, or that it raised
read_ledger_call(text, stock) ==
    IF parse_raises(text)
    THEN Raised
    ELSE LET ledger_data == ledger_data_of(text)
             replay == read_ledger(ledger_data)
         IN  IF replay.raised \/ plot_raises(ledger_data)
             THEN Raised
             ELSE [raised |-> FALSE,
                   initial_portfolio |-> replay.portfolio[1],
                   final_portfolio |-> final_portfolio(replay.portfolio),
                   information |->
                       [trades |-> Len(trading_days(ledger_data)) - 1,
                        spent |-> total_amount_spent(ledger_data),
                        earned |-> total_amount_earned(ledger_data),
                        profit_loss |-> total_profit_loss(ledger_data)],
                   stock_information |->
                       IF stock # PyFalse
                       THEN <<dates_of(ledger_data, "buy", stock),
                              dates_of(ledger_data, "sell", stock),
                              earned_from_stock(ledger_data, stock)>>
                       ELSE <<>>]

(***************************************************************************)
(* A call of read_ledger on a ledger file of a few lines                   *)
(***************************************************************************)
\* the lines of a ledger file
MaxLines == 3

\* the days of the records, and their shares and prices (the fees are those of a run)
RecordDays == {0, 1}
RecordShares == {3}
RecordPrices == {1}

\* the records of well-formed lines: what log_transaction writes for them
Records ==
    { log_transaction(type, d, s, n, p, f, <<>>)[1] :
              type \in {"buy", "sell"}, d \in RecordDays, s \in Stocks,
              n \in RecordShares, p \in RecordPrices, f \in FeeSet }

\* malformed lines: a field missing, a field too many, a field that is no number
ShortLine == SubSeq(format_line(Line("buy", 0, 1, 3, 1, 2, -5)), 1, 6)
LongLine == format_line(Line("buy", 0, 0, 3, 1, 2, -5)) \o <<Num(0)>>
WordLine == [format_line(Line("sell", 1, 0, 3, 1, 2, 1)) EXCEPT ![5] = Word("abc")]

TextLines == { format_line(r) : r \in Records } \cup {ShortLine, LongLine, WordLine}

LedgerTexts == UNION { [1..len -> TextLines] : len \in 1..MaxLines }

ReplayInit ==
    /\ GenIdle
    /\ StrategyIdle
    /\ IndicatorIdle
    /\ DrawIdle
    /\ stock_prices = <<>> /\ fees = 0 /\ portfolio = <<>> /\ ledger = <<>>
    /\ calls = <<>> /\ today = 0
    /\ pc = "read_ledger"
    /\ file_contents \in LedgerTexts
    /\ stock_of_choice \in {PyFalse} \cup Stocks
    /\ returned = <<>>

\* read_ledger(ledger_file, stock = stock_of_choice)
ReadLedger ==
    /\ pc = "read_ledger"
    /\ returned' = read_ledger_call(file_contents, stock_of_choice)
    /\ pc' = IF returned'.raised THEN "raised" ELSE "returned"
    /\ UNCHANGED <<stock_prices, fees, portfolio, ledger, calls, today>>
    /\ UNCHANGED <<file_contents, stock_of_choice>>
    /\ UNCHANGED <<genVars, paramVars, matrixVars, indVars, drawVars>>

ReplayNext == ReadLedger

SpecReplay == ReplayInit /\ [][ReplayNext]_vars

(***************************************************************************)
(* Claims about read_ledger                                                *)
(***************************************************************************)
WellFormedLine(line) ==
    /\ Len(line) = 7
    /\ line[1].word \in {"buy", "sell"}
    /\ \A i \in 2..7 : line[i].word = ""

\* C21: a call of read_ledger on a file with a malformed line (a number of fields
\* other than 7, or a field that is no number) does not return a result.
C21_MalformedAborts ==
    (\E i \in DOMAIN file_contents : ~WellFormedLine(file_contents[i])) => pc # "returned"

WellFormed(text) == \A i \in DOMAIN text : WellFormedLine(text[i])

\* the net cash flow field of a line, and the sum of the fields of the lines
NetCashFlow(line) == line[7].value

RECURSIVE SumNetCashFlow(_)
SumNetCashFlow(text) ==
    IF text = <<>> THEN 0 ELSE NetCashFlow(Head(text)) + SumNetCashFlow(Tail(text))

\* the files that have the lines of the text in another order, every line at the
\* place of a line of its own day
SameDayPermutations(text) ==
    { [i \in DOMAIN text |-> text[p[i]]] :
        p \in { q \in [DOMAIN text -> DOMAIN text] :
                  /\ \A i, j \in DOMAIN text : q[i] = q[j] => i = j
                  /\ \A i \in DOMAIN text : text[q[i]][2] = text[i][2] } }

\* C22: the total profit/loss read_ledger returns for a well-formed ledger is the
\* sum of the net cash flow fields of the lines, and the call returns the same total
\* for every permutation of the lines within their days.
C22_ProfitIsSumOfCashFlows ==
    (pc = "returned" /\ WellFormed(file_contents)) =>
        /\ returned.information.profit_loss = SumNetCashFlow(file_contents)
        /\ returned.information.profit_loss =
               returned.information.earned - returned.information.spent
        /\ \A text \in SameDayPermutations(file_contents) :
              LET other == read_ledger_call(text, stock_of_choice)
              IN  /\ ~other.raised
                  /\ other.information.profit_loss = returned.information.profit_loss

\* a returned call on three well-formed lines with money spent and money earned,
\* two different lines of them on the same day
C22_Witness ==
    /\ pc = "returned"
    /\ WellFormed(file_contents)
    /\ Len(file_contents) = 3
    /\ returned.information.spent > 0
    /\ returned.information.earned > 0
    /\ \E i, j \in DOMAIN file_contents :
          /\ file_contents[i] # file_contents[j]
          /\ file_contents[i][2] = file_contents[j][2]
          /\ NetCashFlow(file_contents[i]) < 0
          /\ NetCashFlow(file_contents[j]) > 0

\* the lines of a stock, and the days of its lines of a type
LinesOf(text, stock) == { i \in DOMAIN text : text[i][3].value = stock }

DaysOf(text, type, stock) ==
    { text[i][2].value : i \in { j \in LinesOf(text, stock) : text[j][1].word = type } }

RECURSIVE SumLines(_, _)
SumLines(text, lines) ==
    IF lines = {} THEN 0
    ELSE LET i == CHOOSE j \in lines : TRUE
         IN  NetCashFlow(text[i]) + SumLines(text, lines \ {i})

\* C23: a call of read_ledger with the id of a stock of the ledger, 0 included,
\* returns the distinct days the stock was bought on, the distinct days it was sold
\* on and the sum of the net cash flows of its lines.
C23_StockInformation ==
    (/\ pc = "returned"
     /\ WellFormed(file_contents)
     /\ LinesOf(file_contents, stock_of_choice) # {}) =>
        returned.stock_information =
            <<SortedSeq(DaysOf(file_contents, "buy", stock_of_choice)),
              SortedSeq(DaysOf(file_contents, "sell", stock_of_choice)),
              SumLines(file_contents, LinesOf(file_contents, stock_of_choice))>>

(***************************************************************************)
(* data.py: generate_stock_price as a whole, on the draws of its random    *)
(* number generator: the increments of line 92 and the news of each day    *)
(***************************************************************************)
\* the array share_price_matrix holds values: the matrix with every entry computed
np_array(mat) == CHOOSE a \in {mat} : a = mat

\* lines 95-122: the loop over the days, from `day` on
RECURSIVE generate_loop(_, _, _, _, _)
generate_loop(mat, day, days, increments, drifts) ==
    IF day >= days
    THEN mat
    ELSE LET stepped == np_array(AddIncrement(mat, day, increments[day - 1]))
             drifted == np_array(AddNews(stepped, day, drifts[day], days))
         IN  generate_loop(np_array(CloseStocks(drifted, day, days)), day + 1, days,
                           increments, drifts)

\* generate_stock_price, lines 68-125
generate_stock_price(days, init, increments, drifts) ==
    generate_loop(InitialMatrix(days, init), 1, days, increments, drifts)

\* line 92: the increments rng.normal can return for the volatility
IncrementMatrices(days, vol) ==
    { [d \in 0..(days - 2) |-> [s \in Stocks |-> z[d][s] * vol[s]]] :
        z \in [0..(days - 2) -> [Stocks -> NormalDraws]] }

\* the news of the days 1..days-1 of a run: no event, or one event on one day
NoNews(days) == [d \in 1..(days - 1) |-> news_none]

NewsDraws(days, vol) ==
    {NoNews(days)} \cup
    { [NoNews(days) EXCEPT ![day] = nw] :
        day \in 1..(days - 1), nw \in NewsChoices(vol, TRUE) \ {news_none} }

\* volatilities that grow with the stock id: the drift of a news event differs
\* from stock to stock
IncreasingVolatilities ==
    { vol \in [Stocks -> VolatilitySet] : \A s, t \in Stocks : s < t => vol[s] < vol[t] }

GenerateInit ==
    /\ initial_prices \in [Stocks -> InitialPriceSet \ {0}]
    /\ volatility \in IncreasingVolatilities
    /\ increment_matrix \in IncrementMatrices(GenDays, volatility)
    /\ news_draws \in NewsDraws(GenDays, volatility)
    /\ share_price_matrix = <<>>
    /\ gen_day = 0 /\ priced = <<>> /\ news_count = 0 /\ news_drift = <<>>
    /\ stock_prices = <<>> /\ fees = 0 /\ portfolio = <<>> /\ ledger = <<>>
    /\ calls = <<>> /\ today = 0
    /\ pc = "generate_stock_price"
    /\ StrategyIdle
    /\ IndicatorIdle
    /\ ReplayIdle

\* generate_stock_price(GenDays, initial_prices, volatility), lines 54-125
GenerateCall ==
    /\ pc = "generate_stock_price"
    /\ share_price_matrix' =
           generate_stock_price(GenDays, initial_prices, increment_matrix, news_draws)
    /\ pc' = "returned"
    /\ UNCHANGED <<initial_prices, volatility, gen_day, priced, news_count, news_drift>>
    /\ UNCHANGED <<stock_prices, fees, portfolio, ledger, calls, today>>
    /\ UNCHANGED <<paramVars, matrixVars, indVars, drawVars, replayVars>>

GenerateNext == GenerateCall

SpecGenerate == GenerateInit /\ [][GenerateNext]_vars

(***************************************************************************)
(* Claims about the shift of a news event                                  *)
(***************************************************************************)
\* the same run without its news event
WithoutNews ==
    generate_stock_price(GenDays, initial_prices, increment_matrix, NoNews(GenDays))

EventDays == { d \in DOMAIN news_draws : news_draws[d] # news_none }

Least(a, b) == IF a < b THEN a ELSE b

\* C24: after a run with a news event of drift x and duration k on day d, all k
\* days of it inside the horizon, the price of a stock that has not failed is, on
\* day d + j, (j + 1) * x above its price in the same run without the event for
\* 0 <= j < k, and k * x above it on every later day.
C24_NewsShiftCumulative ==
    pc = "returned" =>
        LET without == WithoutNews
        IN  \A d \in EventDays :
                LET k == news_draws[d].duration
                    x == news_draws[d].drift
                IN  d + k <= GenDays =>
                        \A e \in d..(GenDays - 1), s \in Stocks :
                            (/\ ~isnan(share_price_matrix[e][s])
                             /\ ~isnan(without[e][s])) =>
                                share_price_matrix[e][s] =
                                    without[e][s] + Least(e - d + 1, k) * x[s]

\* a run with an event on day 1 that ends before the last day, and a stock that
\* never failed: its price is 2 * x higher on the second day of the event and
\* 3 * x higher on the day after the event
C24_Witness ==
    /\ pc = "returned"
    /\ news_draws[1] # news_none
    /\ news_draws[1].duration = DurationLow
    /\ LET without == WithoutNews
           x == news_draws[1].drift
       IN  \E s \in Stocks :
              /\ x[s] # 0
              /\ ~isnan(share_price_matrix[GenDays - 1][s])
              /\ ~isnan(without[GenDays - 1][s])
              /\ share_price_matrix[2][s] = without[2][s] + 2 * x[s]
              /\ share_price_matrix[1 + DurationLow][s] =
                     without[1 + DurationLow][s] + DurationLow * x[s]

(***************************************************************************)
(* Claims about the ledger of a strategy run                               *)
(***************************************************************************)
DayZeroBuy(r) == r.type = "buy" /\ r.date = 0

\* C25: in every step of a run of random, crossing_averages or momentum the ledger
\* keeps the records it has and gains at most one record per buy or sell call of
\* the step; after the step the days of its records do not decrease in file order,
\* none is later than the final day, and the day-0 buy records come first.
C25_LedgerDaysNonDecreasing ==
    [][/\ Len(ledger') >= Len(ledger)
       /\ SubSeq(ledger', 1, Len(ledger)) = ledger
       /\ Len(ledger') - Len(ledger) <= Len(calls') - Len(calls)
       /\ \A i, j \in DOMAIN ledger' : i < j => ledger'[i].date <= ledger'[j].date
       /\ \A i \in DOMAIN ledger' : 0 <= ledger'[i].date /\ ledger'[i].date <= StrategyDays - 1
       /\ \A i, j \in DOMAIN ledger' : (i < j /\ DayZeroBuy(ledger'[j])) => DayZeroBuy(ledger'[i])
      ]_vars

\* a finished run whose ledger has a day-0 buy, a record of a day of the loop and a
\* record of the final day
C25_Witness ==
    /\ pc = "done"
    /\ \E i, j, k \in DOMAIN ledger :
          /\ i < j /\ j < k
          /\ DayZeroBuy(ledger[i])
          /\ 0 < ledger[j].date /\ ledger[j].date < StrategyDays - 1
          /\ ledger[k].date = StrategyDays - 1

(***************************************************************************)
(* A strategy run followed by read_ledger on the ledger file it wrote      *)
(***************************************************************************)
\* read_ledger(ledger) after the strategy has returned
StrategyReadLedger ==
    /\ pc = "done"
    /\ file_contents' = format_ledger(ledger)
    /\ returned' = read_ledger_call(file_contents', stock_of_choice)
    /\ pc' = IF returned'.raised THEN "raised" ELSE "returned"
    /\ UNCHANGED <<stock_prices, fees, portfolio, ledger, calls, today, stock_of_choice>>
    /\ UNCHANGED <<genVars, paramVars, matrixVars, indVars, drawVars>>

StrategyReplayNext == StrategiesNext \/ StrategyReadLedger

SpecStrategyReplay == StrategiesInit /\ [][StrategyReplayNext]_vars

\* the shares create_portfolio bought of a stock: those of its day-0 record
DayZeroShares(s) ==
    LET Mine(r) == DayZeroBuy(r) /\ r.stock = s
        mine == SelectSeq(ledger, Mine)
    IN  IF mine = <<>> THEN 0 ELSE mine[1].shares

FailedOnDayZero == { s \in Stocks : isnan(stock_prices[0][s]) }

\* C26: read_ledger on the ledger of a strategy run in which a stock was failed on
\* day 0, and that wrote a record, completes, and its initial portfolio has a column
\* for every stock that holds the shares of the day-0 record of that stock (0
\* without a record).
C26_ReplayWithFailedStock ==
    (pc \in {"returned", "raised"} /\ FailedOnDayZero # {} /\ ledger # <<>>) =>
        /\ pc = "returned"
        /\ DOMAIN returned.initial_portfolio = Stocks
        /\ \A s \in Stocks : returned.initial_portfolio[s] = DayZeroShares(s)

====
